---- MODULE Spec2Model ----
(***************************************************************************)
(* The motion watcher of ghthor/watcher (src/unnamed/part_001): the main   *)
(* loop that runs the kernels Watching, BackToWatching, MotionDetected and *)
(* Recording, the recording sinks they open, and the goroutines that close *)
(* the sinks.                                                              *)
(*                                                                         *)
(* Time is a clock in milliseconds that advances only inside the two       *)
(* blocking calls of the pipeline thread, the frame read and the wait on   *)
(* the ticker; the computation between two blocking calls takes no time.   *)
(***************************************************************************)
EXTENDS Integers, Sequences, FiniteSets

\* ------------------------------------------------------------------ bounds
\* The clock stops advancing after MaxTicks watch cycles.
MaxTicks == 34
\* A frame read blocks for at most MaxDelayTicks watch cycles.
MaxDelayTicks == 1
\* FindContours returns at most MaxShapes contours.
MaxShapes == 1
\* The clock of a short run stops after MaxShortTicks watch cycles.
MaxShortTicks == 13
\* FindMotion on its own sees at most MaxFrameShapes contours.
MaxFrameShapes == 3
\* A run whose frames are numbered reads at most MaxFrames non-empty frames.
MaxFrames == 5
\* The clock of such a run stops after MaxFrameTicks watch cycles.
MaxFrameTicks == 24
\* The clock of a run in which the scene comes to rest stops after
\* MaxQuietTicks watch cycles.
MaxQuietTicks == 24
\* The clock of a run of the single-loop variant stops after MaxLoopTicks
\* watch cycles.
MaxLoopTicks == 24
\* Such a run counts at most MaxLoopFrames frames with motion in a row.
MaxLoopFrames == 4

\* --------------------------------------------------------------- constants
Millisecond == 1
Second == 1000
DefaultWatchCycle == 200 * Millisecond
DefaultRecordingThreshold == 2 * Second
DefaultRecordingDropoff == 2 * Second
MinimumArea == 3000

\* The zero time.Time a new Watcher holds in motionDetectedAt.
ZeroTime == -1
\* time.Since saturates at the largest Duration.
MaxDuration == 2147483647
\* A time no local variable holds: the variable is out of scope.
NoTime == -2

MaxTime == MaxTicks * DefaultWatchCycle
ShortTime == MaxShortTicks * DefaultWatchCycle
FrameTime == MaxFrameTicks * DefaultWatchCycle
QuietTime == MaxQuietTicks * DefaultWatchCycle
LoopTime == MaxLoopTicks * DefaultWatchCycle

\* How long src.Read may block until the device hands over a frame: up to
\* MaxDelayTicks watch cycles, or for longer than either threshold.
LongRead == DefaultRecordingDropoff + DefaultWatchCycle
ReadDelays == {k * DefaultWatchCycle : k \in 0..MaxDelayTicks} \cup {LongRead}
\* How long <-readLimiter.C may block: a tick may be pending already.
TickDelays == {0, DefaultWatchCycle}

ErrNil == "nil"
ErrReadDevice == "error reading device"
ErrOpen == "VideoWriterFile error"
ErrWrite == "VideoWriter.Write error"

VARIABLES
    now,              \* the wall clock, in milliseconds
    kernel,           \* main's variable kernel: the kernel running or to run next
    err,              \* main's variable err
    pc,               \* where the pipeline thread is
    motionDetectedAt, \* Watcher.motionDetectedAt
    motionBegan,      \* MotionDetected's local motionBegan
    sessions,         \* the sinks opened so far, in order of opening
    appended,         \* the sink the last step wrote a frame to, 0 for none
    published,        \* the annotation of the frame the debug stream holds
    lastOp,           \* the operation that made the last step
    hist,             \* what the run has observed so far
    run,              \* the signal run observed, as the claims describe it
    pending,          \* imgDebug holds a frame the debug stream has not got yet
    frame,            \* what FindMotion saw and drew in the frame it ran on
    released,         \* how many times Watcher.Close has run
    ctxDone,          \* the context passed to the kernels is cancelled
    cfg,              \* the limits of the run
    tape,             \* the frames read so far and those the latest sink got
    quiet,            \* the scene has come to rest
    loop              \* the locals of main in the variant with a single loop

vars == <<now, kernel, err, pc, motionDetectedAt, motionBegan, sessions,
          appended, published, lastOp, hist, run, pending, frame, released,
          ctxDone, cfg, tape, quiet, loop>>

\* What no kernel writes: FindMotion's record of its frame is followed in
\* SpecFindMotion alone, nothing in the program cancels the context or changes
\* the limits of the run, main's deferred Watcher.Close is all that releases,
\* whether the scene is at rest is the world's matter, and the locals of the
\* single-loop variant are no part of the Watcher.
fixed == <<frame, released, ctxDone, cfg, quiet, loop>>

\* time.Since(t) at the instant n.
Since(t, n) == IF t = ZeroTime THEN MaxDuration ELSE n - t

\* The phase a kernel stands for.
PhaseOf(k) ==
    CASE k = "Watching" -> "Watching"
      [] k = "BackToWatching" -> "Watching"
      [] k = "MotionDetected" -> "Confirming"
      [] k = "Recording" -> "Recording"
      [] OTHER -> "None"

Phase == IF pc = "exit" THEN "None" ELSE PhaseOf(kernel)

\* ------------------------------------------------------------- FindMotion
\* The contour areas gocv.ContourArea may report, around MinimumArea.
Areas == {MinimumArea - 1, MinimumArea}
\* What FindContours may return: the areas of the contours, in order.
Contours == UNION {[1..n -> Areas] : n \in 0..MaxShapes}

\* FindMotion as it would be with `area <= MinimumArea` for the skip.
MotionIn_Strict(shapes) == \E i \in 1..Len(shapes) : ~(shapes[i] <= MinimumArea)

\* FindMotion's result: some contour is not skipped by `area < MinimumArea`.
MotionIn(shapes) == \E i \in 1..Len(shapes) : ~(shapes[i] < MinimumArea)

\* FindMotion as it would be with the assignment outside `if motionDetected`.
FindMotion_Always(motionDetected, n) == n

\* Watcher.motionDetectedAt after FindMotion ran at the instant n.
FindMotion(motionDetected, n) ==
    IF motionDetected THEN n ELSE motionDetectedAt

\* ---------------------------------------------------------------- sinks
\* gocv.VideoWriterFile at the instant n: a sink, open, with no frame.
VideoWriterFile(n) ==
    [startedAt |-> n, state |-> "open", writeFailed |-> FALSE,
     closeIssuedAt |-> NoTime, closeFailed |-> FALSE]

\* recordingBegan.Format(FilenameLayout): the layout keeps the date and the
\* time of day down to the second and drops the rest, so the name is the
\* second the clock showed.
Filename(t) == t \div Second

\* file.Write on the sink s: the sink after it.
FileWrite(s, ok) == IF ok THEN s ELSE [s EXCEPT !.writeFailed = TRUE]

\* Recording as it would be without file.Write.
Wrote_Never(i, ok) == 0

\* file.Write on the sink i: the sink a frame went to.
Wrote(i, ok) == IF ok THEN i ELSE 0

\* tape is a history variable, kept in the runs whose frames are numbered
\* (cfg.frames > 0): read is the number of the last non-empty frame Read
\* returned, written the numbers of the frames the latest sink got, in order.
\* Such a run reads cfg.frames non-empty frames and no more.
MoreFrames == cfg.frames = 0 \/ tape.read < cfg.frames
\* tape after Read returned a non-empty frame.
TapeRead(t) == IF cfg.frames = 0 THEN t ELSE [t EXCEPT !.read = @ + 1]
\* tape after a new sink was opened.
TapeOpen(t) == [t EXCEPT !.written = <<>>]
\* tape after the frame last read went to the sink i, 0 for none.
TapeWrite(t, i) ==
    IF cfg.frames = 0 \/ i = 0 THEN t ELSE [t EXCEPT !.written = Append(@, t.read)]

\* Recording as it would be without the deferred function.
DeferredClose_Missing(s, n) == s

\* Recording's deferred function at the instant n: it starts the goroutine
\* that will close the sink s.
DeferredClose(s, n) == [s EXCEPT !.state = "closing", !.closeIssuedAt = n]

\* file.Close on the sink s, in the goroutine.
FileClose(s, ok) == [s EXCEPT !.state = "closed", !.closeFailed = ~ok]

\* The sinks with the last one, Recording's local file, replaced by s.
WithFile(s) == [sessions EXCEPT ![Len(sessions)] = s]
File == sessions[Len(sessions)]

OpenSinks == {i \in 1..Len(sessions) : sessions[i].state # "closed"}
ClosesIssued == {i \in 1..Len(sessions) : sessions[i].state # "open"}

\* ------------------------------------------------------- what a run observed
\* hist and run are history variables: the actions write them after every
\* cycle and no action reads them to decide what the program does.
\* The scenario signals of the spec's section 8, by the time of the cycle.
TrueFor3s(t) == t < 3 * Second
TrueFalseTrue(t) == t < 3 * Second \/ t >= 4 * Second
EndOf3s3s == 6 * Second
EndOf3s1s1s == 5 * Second

\* The cycle at the instant t is one watch cycle after the previous one.
OnGrid(t) ==
    t = IF hist.lastReadAt = NoTime THEN 0 ELSE hist.lastReadAt + DefaultWatchCycle

\* hist after a cycle that read a non-empty frame at t with the signal p.
Observed(t, p, fault) ==
    [lastReadAt |-> t,
     signal |-> p,
     waited |-> FALSE,
     on3s3s |-> hist.on3s3s /\ ~fault /\ OnGrid(t) /\ t < EndOf3s3s /\ (p <=> TrueFor3s(t)),
     on3s1s1s |-> hist.on3s1s1s /\ ~fault /\ OnGrid(t) /\ t < EndOf3s1s1s /\ (p <=> TrueFalseTrue(t)),
     everMotion |-> hist.everMotion \/ p,
     failed |-> hist.failed \/ fault]

\* hist after a fault outside a cycle.
Faulted == [hist EXCEPT !.on3s3s = FALSE, !.on3s1s1s = FALSE, !.failed = TRUE]

\* The signal run after the signal p at t: start is the first present=true of
\* the confirming sub-run, last the latest present=true, qualified whether the
\* sub-run exceeded the confirm threshold with no gap over the dropoff since.
RunAfter(t, p) ==
    IF run.qualified
    THEN IF p THEN [run EXCEPT !.last = t]
         ELSE IF t - run.last > DefaultRecordingDropoff
              THEN [start |-> NoTime, last |-> run.last, qualified |-> FALSE]
              ELSE run
    ELSE IF ~p THEN [run EXCEPT !.start = NoTime]
         ELSE IF run.start = NoTime THEN [start |-> t, last |-> t, qualified |-> FALSE]
         ELSE [start |-> run.start, last |-> t,
               qualified |-> t - run.start > DefaultRecordingThreshold]

\* ------------------------------------------------------------------ Init
\* The locals of main in the variant with a single loop, as it declares them
\* before the loop: motionDetectedAt is the time of the declaration. before is
\* no local: it keeps what recording was when the latest iteration began.
LoopLocals ==
    [motionDetected |-> FALSE, motionDetectedAt |-> 0, motionFrameCount |-> 0,
     recording |-> FALSE, before |-> FALSE]

\* NewWatcher, and main up to `kernel := watcher.Watching`, for a run within
\* the limits c.
Start(c) ==
    /\ now = 0
    /\ kernel = "Watching"
    /\ err = ErrNil
    /\ pc = "main"
    /\ motionDetectedAt = ZeroTime
    /\ motionBegan = NoTime
    /\ sessions = <<>>
    /\ appended = 0
    /\ published = "none"
    /\ lastOp = "NewWatcher"
    /\ hist = [lastReadAt |-> NoTime, signal |-> FALSE, waited |-> FALSE,
               on3s3s |-> TRUE, on3s1s1s |-> TRUE,
               everMotion |-> FALSE, failed |-> FALSE]
    /\ run = [start |-> NoTime, last |-> NoTime, qualified |-> FALSE]
    /\ pending = FALSE
    /\ frame = [shapes |-> <<>>, drawn |-> {}, motionDetected |-> FALSE]
    /\ released = 0
    /\ ctxDone = FALSE
    /\ cfg = c
    /\ tape = [read |-> 0, written |-> <<>>]
    /\ quiet = FALSE
    /\ loop = LoopLocals

\* The program.
Init == Start([horizon |-> MaxTime, frames |-> 0])

\* ------------------------------------------------------------------ main
\* main's loop calls the kernel k: the last kernel returned k and no error.
MainCalls(k) == pc = "main" /\ err = ErrNil /\ kernel = k

\* A kernel returns (next, e) to main's loop.
Return(next, e) == kernel' = next /\ err' = e /\ pc' = "main"

\* main: `if err != nil { log.Fatal(err) }` ends the process. log.Fatal exits
\* at once: no deferred function runs, Watcher.Close among them, and the
\* closing goroutines stop where they are.
MainFatal ==
    /\ pc = "main"
    /\ err # ErrNil
    /\ pc' = "exit"
    /\ lastOp' = "MainFatal"
    /\ UNCHANGED <<pending, tape, fixed>>
    /\ UNCHANGED <<now, kernel, err, motionDetectedAt, motionBegan, sessions,
                   published, hist, run>>
    /\ appended' = 0

\* The goroutine main starts to open the preview waits OpenDelay before it
\* runs the command `open`.
OpenDelay == 500 * Millisecond

\* The process is ended by log.Fatal in one of the two goroutines main starts
\* before its loop, named by op: main's err and kernel stay as they are, no
\* deferred function runs, a sink that is open stays unclosed.
HelperFatal(op) ==
    /\ pc # "exit"
    /\ pc' = "exit"
    /\ hist' = Faulted
    /\ lastOp' = op
    /\ appended' = 0
    /\ UNCHANGED <<pending, tape, fixed>>
    /\ UNCHANGED <<now, kernel, err, motionDetectedAt, motionBegan, sessions,
                   published, run>>

\* The pipeline thread's places in Watcher.Read.
ReadPcs == {"W_read", "M_read", "R_read"}

\* How much later than now the clock may read while the pipeline thread is
\* where it is: now is the time its last wait ended, and the wait it is in,
\* src.Read or <-readLimiter.C, lasts up to this long.
Blocked ==
    IF pc \in ReadPcs THEN LongRead
    ELSE IF pc = "W_tick" THEN DefaultWatchCycle
    ELSE 0

\* main's first goroutine: OpenDelay after the start it runs `open`; the
\* command takes its time and, if it fails, log.Fatal(err) ends the process.
\* The goroutine's timer runs on its own: it fires also while the pipeline
\* thread is in a wait that began before OpenDelay.
OpenerFatal ==
    /\ now + Blocked >= OpenDelay
    /\ HelperFatal("OpenerFatal")

\* main's second goroutine: http.ListenAndServe returns, at once when the
\* address is taken or later when the listener fails, and log.Fatal ends the
\* process.
ServerFatal == HelperFatal("ServerFatal")

\* ------------------------------------------------------------------ Read
\* Watcher.Read as it would be if an empty frame ended the stream.
ReadEmpty_AsEndOfStream(d) ==
    /\ pc \in ReadPcs
    /\ now + d <= cfg.horizon
    /\ now' = now + d
    /\ Return("nil", ErrReadDevice)
    /\ lastOp' = "ReadEmpty"
    /\ UNCHANGED <<pending, tape, fixed>>
    /\ appended' = 0
    /\ UNCHANGED <<motionDetectedAt, motionBegan, sessions, published, hist, run>>

\* Watcher.Read: the device hands over an empty frame, Read loops.
ReadEmpty(d) ==
    /\ pc \in ReadPcs
    /\ now + d <= cfg.horizon
    /\ now' = now + d
    /\ lastOp' = "ReadEmpty"
    /\ UNCHANGED <<pending, tape, fixed>>
    /\ UNCHANGED <<kernel, err, pc, motionDetectedAt, motionBegan, sessions,
                   published, hist, run>>
    /\ appended' = 0

\* The sinks after a kernel at pc returned: Recording's deferred close ran.
SinksAfterReturn == IF pc = "R_read" THEN WithFile(DeferredClose(File, now)) ELSE sessions

\* A kernel as it would be if it went back to watching on a failed Read.
ReadFailed_Swallowed == Return("BackToWatching", ErrNil)

\* What a kernel returns when Watcher.Read returned ErrReadDevice.
ReadFailed == Return("nil", ErrReadDevice)

\* Watcher.Read: src.Read reports not-ok, the kernel returns the error.
ReadFail ==
    /\ pc \in ReadPcs
    /\ ReadFailed
    /\ sessions' = SinksAfterReturn
    /\ motionBegan' = NoTime
    /\ hist' = Faulted
    /\ lastOp' = "ReadFail"
    /\ UNCHANGED <<pending, tape, fixed>>
    /\ appended' = 0
    /\ UNCHANGED <<now, motionDetectedAt, published, run>>

\* -------------------------------------------------------------- Watching
\* Watching, up to its first Read: the ticker is made.
Watching_Enter ==
    /\ MainCalls("Watching")
    /\ pc' = "W_read"
    /\ lastOp' = "Watching_Enter"
    /\ UNCHANGED <<pending, tape, fixed>>
    /\ UNCHANGED <<now, kernel, err, motionDetectedAt, motionBegan, sessions,
                   published, hist, run>>
    /\ appended' = 0

\* Watching's loop as it would be without `<-readLimiter.C`.
AfterWatching_NoWait == "W_read"

\* Where Watching's loop goes once it has published: to the wait on the ticker.
AfterWatching == "W_tick"

\* One pass of Watching's loop, from the Read that returns a non-empty frame
\* after d to the wait on the ticker.
Watching_Cycle(d, shapes) ==
    /\ pc = "W_read"
    /\ MoreFrames
    /\ now + d <= cfg.horizon
    /\ now' = now + d
    /\ LET motionDetected == MotionIn(shapes) IN
       /\ motionDetectedAt' = FindMotion(motionDetected, now')
       /\ hist' = Observed(now', motionDetected, FALSE)
       /\ run' = RunAfter(now', motionDetected)
       /\ IF motionDetected
          THEN /\ Return("MotionDetected", ErrNil)
               /\ pending' = TRUE
               /\ UNCHANGED published
          ELSE /\ published' = "Watching"
               /\ pending' = FALSE
               /\ pc' = AfterWatching
               /\ UNCHANGED <<kernel, err>>
    /\ lastOp' = "Watching_Cycle"
    /\ tape' = TapeRead(tape)
    /\ UNCHANGED fixed
    /\ appended' = 0
    /\ UNCHANGED <<motionBegan, sessions>>

\* Watching: `<-readLimiter.C` returns after d.
Watching_Tick(d) ==
    /\ pc = "W_tick"
    /\ now + d <= cfg.horizon
    /\ now' = now + d
    /\ pc' = "W_read"
    /\ hist' = [hist EXCEPT !.waited = TRUE]
    /\ lastOp' = "Watching_Tick"
    /\ UNCHANGED <<pending, tape, fixed>>
    /\ UNCHANGED <<kernel, err, motionDetectedAt, motionBegan, sessions,
                   published, run>>
    /\ appended' = 0

\* -------------------------------------------------------- BackToWatching
BackToWatching ==
    /\ MainCalls("BackToWatching")
    /\ published' = "Watching"
    /\ pending' = FALSE
    /\ Return("Watching", ErrNil)
    /\ lastOp' = "BackToWatching"
    /\ UNCHANGED <<tape, fixed>>
    /\ appended' = 0
    /\ UNCHANGED <<now, motionDetectedAt, motionBegan, sessions, hist, run>>

\* -------------------------------------------------------- MotionDetected
\* MotionDetected's switch as it would be with `>=` for `>`.
Confirmed_AtThreshold(began, n) == Since(began, n) >= DefaultRecordingThreshold

\* MotionDetected's switch: the motion has lasted long enough to record.
Confirmed(began, n) == Since(began, n) > DefaultRecordingThreshold

\* MotionDetected, up to its first Read.
MotionDetected_Enter ==
    /\ MainCalls("MotionDetected")
    /\ motionBegan' = now
    /\ published' = "Motion Detected"
    /\ pending' = FALSE
    /\ pc' = "M_read"
    /\ lastOp' = "MotionDetected_Enter"
    /\ UNCHANGED <<tape, fixed>>
    /\ appended' = 0
    /\ UNCHANGED <<now, kernel, err, motionDetectedAt, sessions, hist, run>>

\* One pass of MotionDetected's loop, from the Read that returns a non-empty
\* frame after d to the next Read or the return.
MotionDetected_Cycle(d, shapes) ==
    /\ pc = "M_read"
    /\ MoreFrames
    /\ now + d <= cfg.horizon
    /\ now' = now + d
    /\ LET motionDetected == MotionIn(shapes) IN
       /\ motionDetectedAt' = FindMotion(motionDetected, now')
       /\ hist' = Observed(now', motionDetected, FALSE)
       /\ run' = RunAfter(now', motionDetected)
       /\ CASE ~motionDetected ->
                 /\ Return("BackToWatching", ErrNil)
                 /\ motionBegan' = NoTime
                 /\ pending' = TRUE
                 /\ UNCHANGED published
            [] motionDetected /\ Confirmed(motionBegan, now') ->
                 /\ Return("Recording", ErrNil)
                 /\ motionBegan' = NoTime
                 /\ pending' = TRUE
                 /\ UNCHANGED published
            [] OTHER ->
                 /\ published' = "Motion Detected"
                 /\ pending' = FALSE
                 /\ UNCHANGED <<kernel, err, pc, motionBegan>>
    /\ lastOp' = "MotionDetected_Cycle"
    /\ tape' = TapeRead(tape)
    /\ UNCHANGED fixed
    /\ appended' = 0
    /\ UNCHANGED sessions

\* ------------------------------------------------------------- Recording
\* Recording's loop as it would be without the dropoff, as in the variant of
\* src/unnamed/part_000 that stops recording with the motion.
DroppedOff_NoDropoff(motionDetected, at, n) == ~motionDetected

\* Recording's loop as it would be with `>=` for `>`.
DroppedOff_AtThreshold(motionDetected, at, n) ==
    ~motionDetected /\ Since(at, n) >= DefaultRecordingDropoff

\* Recording's loop: no motion in this frame and none for too long.
DroppedOff(motionDetected, at, n) ==
    ~motionDetected /\ Since(at, n) > DefaultRecordingDropoff

\* What Recording returns when file.Write failed.
WriteFailed == Return("BackToWatching", ErrWrite)

\* What Recording returns when VideoWriterFile failed.
OpenFailed == Return("BackToWatching", ErrOpen)

\* Recording, up to its first Read: the sink is opened and the frame that
\* confirmed the motion is written to it.
Recording_Enter(openOk, writeOk) ==
    /\ MainCalls("Recording")
    /\ IF ~openOk
       THEN /\ OpenFailed
            /\ hist' = Faulted
            /\ appended' = 0
            /\ UNCHANGED <<sessions, published, pending, tape>>
       ELSE LET file == FileWrite(VideoWriterFile(now), writeOk) IN
            /\ appended' = Wrote(Len(sessions) + 1, writeOk)
            /\ tape' = TapeWrite(TapeOpen(tape), Wrote(Len(sessions) + 1, writeOk))
            /\ IF ~writeOk
               THEN /\ WriteFailed
                    /\ sessions' = Append(sessions, DeferredClose(file, now))
                    /\ hist' = Faulted
                    /\ UNCHANGED <<published, pending>>
               ELSE /\ sessions' = Append(sessions, file)
                    /\ published' = "Recording"
                    /\ pending' = FALSE
                    /\ pc' = "R_read"
                    /\ UNCHANGED <<kernel, err, hist>>
    /\ lastOp' = "Recording_Enter"
    /\ UNCHANGED fixed
    /\ UNCHANGED <<now, motionDetectedAt, motionBegan, run>>

\* One pass of Recording's loop, from the Read that returns a non-empty frame
\* after d to the next Read or the return.
Recording_Cycle(d, shapes, writeOk) ==
    /\ pc = "R_read"
    /\ MoreFrames
    /\ now + d <= cfg.horizon
    /\ now' = now + d
    /\ LET motionDetected == MotionIn(shapes) IN
       /\ motionDetectedAt' = FindMotion(motionDetected, now')
       /\ run' = RunAfter(now', motionDetected)
       /\ IF DroppedOff(motionDetected, motionDetectedAt', now')
          THEN /\ Return("BackToWatching", ErrNil)
               /\ sessions' = WithFile(DeferredClose(File, now'))
               /\ hist' = Observed(now', motionDetected, FALSE)
               /\ appended' = 0
               /\ tape' = TapeRead(tape)
               /\ pending' = TRUE
               /\ UNCHANGED published
          ELSE IF ~writeOk
          THEN /\ WriteFailed
               /\ sessions' = WithFile(DeferredClose(FileWrite(File, FALSE), now'))
               /\ hist' = Observed(now', motionDetected, TRUE)
               /\ appended' = Wrote(Len(sessions), FALSE)
               /\ tape' = TapeWrite(TapeRead(tape), Wrote(Len(sessions), FALSE))
               /\ pending' = TRUE
               /\ UNCHANGED published
          ELSE /\ sessions' = WithFile(FileWrite(File, TRUE))
               /\ appended' = Wrote(Len(sessions), TRUE)
               /\ tape' = TapeWrite(TapeRead(tape), Wrote(Len(sessions), TRUE))
               /\ hist' = Observed(now', motionDetected, FALSE)
               /\ published' = "Recording"
               /\ pending' = FALSE
               /\ UNCHANGED <<kernel, err, pc>>
    /\ lastOp' = "Recording_Cycle"
    /\ UNCHANGED fixed
    /\ UNCHANGED motionBegan

\* ------------------------------------------------- the closing goroutines
\* The goroutine Recording's deferred function started for the sink i runs
\* file.Close; a failure is logged.
CloseSink(i, ok) ==
    /\ pc # "exit"
    /\ sessions[i].state = "closing"
    /\ sessions' = [sessions EXCEPT ![i] = FileClose(@, ok)]
    /\ lastOp' = "CloseSink"
    /\ UNCHANGED <<pending, tape, fixed>>
    /\ appended' = 0
    /\ UNCHANGED <<now, kernel, err, pc, motionDetectedAt, motionBegan,
                   published, hist, run>>

\* ------------------------------------------------------------------ Next
Next ==
    \/ MainFatal
    \/ OpenerFatal
    \/ ServerFatal
    \/ Watching_Enter
    \/ \E d \in ReadDelays, shapes \in Contours : Watching_Cycle(d, shapes)
    \/ \E d \in TickDelays : Watching_Tick(d)
    \/ BackToWatching
    \/ MotionDetected_Enter
    \/ \E d \in ReadDelays, shapes \in Contours : MotionDetected_Cycle(d, shapes)
    \/ \E openOk \in BOOLEAN, writeOk \in BOOLEAN : Recording_Enter(openOk, writeOk)
    \/ \E d \in ReadDelays, shapes \in Contours, writeOk \in BOOLEAN :
          Recording_Cycle(d, shapes, writeOk)
    \/ \E d \in ReadDelays : ReadEmpty(d)
    \/ ReadFail
    \/ \E i \in 1..Len(sessions), ok \in BOOLEAN : CloseSink(i, ok)

Spec == Init /\ [][Next]_vars

\* ----------------------------------------------------- FindMotion on its own
\* The contour areas of a frame FindMotion is called on, around MinimumArea.
FrameAreas == {MinimumArea - 1, MinimumArea, MinimumArea + 1}
\* The contours of such a frame, in the order FindContours returns them.
Frames == UNION {[1..n -> FrameAreas] : n \in 0..MaxFrameShapes}

\* The contours FindMotion draws on imgDebug, rectangle and outline: the ones
\* its loop does not skip by `area < MinimumArea`.
Drawn(shapes) == {i \in 1..Len(shapes) : ~(shapes[i] < MinimumArea)}

\* Watcher.FindMotion on a frame with the contours shapes, called d after the
\* previous call.
FindMotion_Call(d, shapes) ==
    /\ now + d <= cfg.horizon
    /\ now' = now + d
    /\ frame' = [shapes |-> shapes, drawn |-> Drawn(shapes),
                 motionDetected |-> MotionIn(shapes)]
    /\ motionDetectedAt' = FindMotion(MotionIn(shapes), now')
    /\ lastOp' = "FindMotion"
    /\ UNCHANGED <<kernel, err, pc, motionBegan, sessions, appended, published,
                   hist, run, pending, released, ctxDone, cfg, tape, quiet,
                   loop>>

NextFindMotion ==
    \E d \in TickDelays, shapes \in Frames : FindMotion_Call(d, shapes)

SpecFindMotion == Init /\ [][NextFindMotion]_vars

\* ------------------------------------------------- a context that is cancelled
\* The caller of the kernels cancels the context it passed them. No kernel
\* reads ctx: Read takes it and ignores it, and the wait on the ticker is a
\* bare channel receive, so the cancellation changes nothing but the context.
Cancel ==
    /\ ~ctxDone
    /\ pc # "exit"
    /\ ctxDone' = TRUE
    /\ lastOp' = "Cancel"
    /\ appended' = 0
    /\ UNCHANGED <<now, kernel, err, pc, motionDetectedAt, motionBegan, sessions,
                   published, hist, run, pending, frame, released, cfg, tape,
                   quiet, loop>>

InitShort ==
    Start([horizon |-> ShortTime, frames |-> 0])

NextCancel == Next \/ Cancel

\* The program, with the non-empty frames it reads numbered 1, 2, ...
InitFrames ==
    Start([horizon |-> FrameTime,
           frames |-> MaxFrames])

SpecFrames == InitFrames /\ [][Next]_vars

\* ------------------------------------------------- a scene that comes to rest
\* The frames of a scene at rest: no contour FindMotion counts.
QuietContours == {shapes \in Contours : ~MotionIn(shapes)}

\* While the machine records, the scene comes to rest and the devices settle:
\* from now on src.Read hands over a non-empty frame without motion one watch
\* cycle after it was called, and file.Write succeeds. The clock has room for
\* the dropoff to pass.
ComeToRest ==
    /\ ~quiet
    /\ pc = "R_read"
    /\ now + DefaultRecordingDropoff + DefaultWatchCycle <= cfg.horizon
    /\ quiet' = TRUE
    /\ lastOp' = "ComeToRest"
    /\ appended' = 0
    /\ UNCHANGED <<now, kernel, err, pc, motionDetectedAt, motionBegan, sessions,
                   published, hist, run, pending, frame, released, ctxDone, cfg,
                   tape, loop>>

\* The steps of the pipeline thread with the scene at rest.
QuietRecording ==
    /\ quiet
    /\ \E shapes \in QuietContours : Recording_Cycle(DefaultWatchCycle, shapes, TRUE)
QuietBackToWatching == quiet /\ BackToWatching
QuietEnter == quiet /\ Watching_Enter
QuietWatching ==
    /\ quiet
    /\ \E shapes \in QuietContours : Watching_Cycle(DefaultWatchCycle, shapes)
QuietTick == quiet /\ \E d \in TickDelays : Watching_Tick(d)

QuietPipeline ==
    QuietRecording \/ QuietBackToWatching \/ QuietEnter \/ QuietWatching \/ QuietTick

\* The closing goroutines, with the scene at rest.
QuietClose ==
    /\ quiet
    /\ \E i \in 1..Len(sessions), ok \in BOOLEAN : CloseSink(i, ok)

InitQuiet ==
    Start([horizon |-> QuietTime, frames |-> 0])

NextQuiet ==
    \/ ~quiet /\ MainFatal
    \/ OpenerFatal
    \/ ServerFatal
    \/ ~quiet /\ Watching_Enter
    \/ ~quiet /\ \E d \in ReadDelays, shapes \in Contours : Watching_Cycle(d, shapes)
    \/ ~quiet /\ \E d \in TickDelays : Watching_Tick(d)
    \/ ~quiet /\ BackToWatching
    \/ ~quiet /\ MotionDetected_Enter
    \/ ~quiet /\ \E d \in ReadDelays, shapes \in Contours : MotionDetected_Cycle(d, shapes)
    \/ ~quiet /\ \E openOk \in BOOLEAN, writeOk \in BOOLEAN : Recording_Enter(openOk, writeOk)
    \/ ~quiet /\ \E d \in ReadDelays, shapes \in Contours, writeOk \in BOOLEAN :
                    Recording_Cycle(d, shapes, writeOk)
    \/ ~quiet /\ \E d \in ReadDelays : ReadEmpty(d)
    \/ ~quiet /\ ReadFail
    \/ ~quiet /\ \E i \in 1..Len(sessions), ok \in BOOLEAN : CloseSink(i, ok)
    \/ ComeToRest
    \/ QuietRecording
    \/ QuietBackToWatching
    \/ QuietEnter
    \/ QuietWatching
    \/ QuietTick
    \/ QuietClose

\* The program before a scene that may come to rest. The pipeline thread is
\* never starved: main's loop and the kernels run on, and with the scene at
\* rest the device goes on handing over frames. main's two helper goroutines
\* are not part of the scene: log.Fatal in either ends the process whether
\* the scene is at rest or not.
SpecQuiet == InitQuiet /\ [][NextQuiet]_vars /\ WF_vars(QuietPipeline)

\* The kernels, run with a context their caller may cancel at any time.
SpecCancel == InitShort /\ [][NextCancel]_vars

\* ------------------------------------------- the variant with a single loop
\* part_000 is the program before the Watcher and its kernels: main reads,
\* evaluates, annotates and publishes in one loop, keeps no recording sink
\* and has no dropoff. Its DefaultRecordingThreshold is 3 s.
LoopRecordingThreshold == 3 * Second

\* The switch on motionDetected: the frame count restarts on a frame without
\* motion and grows on every frame with motion.
LoopCount(motionDetected, count) == IF motionDetected THEN count + 1 ELSE 0

\* The switch on motionDetected: the first frame with motion of a run stamps
\* motionDetectedAt.
LoopStamp(motionDetected, count, at, n) ==
    IF motionDetected /\ count = 0 THEN n ELSE at

\* The loop as it would be with recording decided by the threshold alone.
LoopRecording_Held(motionDetected, at, n) == n > at + LoopRecordingThreshold

\* `recording = motionDetected && time.Now().After(motionDetectedAt.Add(
\* DefaultRecordingThreshold))`.
LoopRecording(motionDetected, at, n) ==
    motionDetected /\ n > at + LoopRecordingThreshold

\* The text the loop puts on the frame, without the frame count it appends
\* to the last two.
LoopText(motionDetected, recording) ==
    IF ~motionDetected THEN "Watching"
    ELSE IF ~recording THEN "Motion Detected"
    ELSE "Recording"

\* What the loop's steps leave alone: there is no Watcher.
LoopUnchanged ==
    UNCHANGED <<kernel, err, motionDetectedAt, motionBegan, sessions, appended,
                hist, run, pending, frame, released, ctxDone, cfg, tape, quiet>>

\* One iteration on a non-empty frame with the contours shapes, read after d:
\* the signal, the switch, recording, the text, the publishing; after a frame
\* with motion the loop reads on, after one without it waits for watchDelay.
\* A failed Read is only reported: the frame it leaves is evaluated like any.
Loop_Cycle(d, shapes) ==
    LET motionDetected == MotionIn(shapes)
        at == LoopStamp(motionDetected, loop.motionFrameCount,
                        loop.motionDetectedAt, now + d)
        recording == LoopRecording(motionDetected, at, now + d)
    IN  /\ pc = "L_read"
        /\ now + d <= cfg.horizon
        /\ motionDetected => loop.motionFrameCount < MaxLoopFrames
        /\ now' = now + d
        /\ loop' = [motionDetected |-> motionDetected,
                    motionDetectedAt |-> at,
                    motionFrameCount |->
                        LoopCount(motionDetected, loop.motionFrameCount),
                    recording |-> recording,
                    before |-> loop.recording]
        /\ published' = LoopText(motionDetected, recording)
        /\ pc' = IF motionDetected THEN "L_read" ELSE "L_tick"
        /\ lastOp' = "Loop_Cycle"
        /\ LoopUnchanged

\* One iteration on an empty frame: `continue`, with motionDetected reset and
\* nothing else touched, and no wait.
Loop_Empty(d) ==
    /\ pc = "L_read"
    /\ now + d <= cfg.horizon
    /\ now' = now + d
    /\ loop' = [loop EXCEPT !.motionDetected = FALSE, !.before = loop.recording]
    /\ lastOp' = "Loop_Empty"
    /\ UNCHANGED <<pc, published>>
    /\ LoopUnchanged

\* `<-watchDelay`: the next tick of time.Tick(DefaultWatchCycle), which may be
\* pending already.
Loop_Tick(d) ==
    /\ pc = "L_tick"
    /\ now + d <= cfg.horizon
    /\ now' = now + d
    /\ pc' = "L_read"
    /\ lastOp' = "Loop_Tick"
    /\ UNCHANGED <<published, loop>>
    /\ LoopUnchanged

\* How much later than now the clock may read while the loop is where it is.
LoopBlocked == IF pc = "L_read" THEN LongRead ELSE DefaultWatchCycle

\* log.Fatal in one of the two goroutines main starts before the loop.
Loop_Fatal(op) ==
    /\ pc \in {"L_read", "L_tick"}
    /\ pc' = "exit"
    /\ lastOp' = op
    /\ UNCHANGED <<now, published, loop>>
    /\ LoopUnchanged

\* The goroutine that runs `open` OpenDelay after the start.
Loop_OpenerFatal ==
    /\ now + LoopBlocked >= OpenDelay
    /\ Loop_Fatal("Loop_OpenerFatal")

\* The goroutine that runs http.ListenAndServe.
Loop_ServerFatal == Loop_Fatal("Loop_ServerFatal")

\* main up to `for {`.
InitLoop ==
    /\ now = 0
    /\ pc = "L_read"
    /\ loop = LoopLocals
    /\ published = "none"
    /\ lastOp = "main"
    /\ kernel = "none"
    /\ err = ErrNil
    /\ motionDetectedAt = ZeroTime
    /\ motionBegan = NoTime
    /\ sessions = <<>>
    /\ appended = 0
    /\ hist = [lastReadAt |-> NoTime, signal |-> FALSE, waited |-> FALSE,
               on3s3s |-> TRUE, on3s1s1s |-> TRUE,
               everMotion |-> FALSE, failed |-> FALSE]
    /\ run = [start |-> NoTime, last |-> NoTime, qualified |-> FALSE]
    /\ pending = FALSE
    /\ frame = [shapes |-> <<>>, drawn |-> {}, motionDetected |-> FALSE]
    /\ released = 0
    /\ ctxDone = FALSE
    /\ cfg = [horizon |-> LoopTime, frames |-> 0]
    /\ tape = [read |-> 0, written |-> <<>>]
    /\ quiet = FALSE

NextLoop ==
    \/ \E d \in ReadDelays, shapes \in Contours : Loop_Cycle(d, shapes)
    \/ \E d \in ReadDelays : Loop_Empty(d)
    \/ \E d \in TickDelays : Loop_Tick(d)
    \/ Loop_OpenerFatal
    \/ Loop_ServerFatal

SpecLoop == InitLoop /\ [][NextLoop]_vars

\* ================================================================ claims

\* The sinks whose close has not been issued yet.
NotCloseIssued == {i \in 1..Len(sessions) : sessions[i].state = "open"}

\* C1, as stated: in every reachable state at most one recording sink is open,
\* a sink being open from VideoWriterFile until file.Close has run.
C1_AtMostOneOpenSink == Cardinality(OpenSinks) <= 1

\* C1, amended: in every reachable state at most one recording sink is open
\* with its close not yet issued; a sink whose close was issued may still be
\* waiting for its goroutine to run file.Close when the next sink is opened.
C1_AtMostOneSinkNotCloseIssued == Cardinality(NotCloseIssued) <= 1

\* A second sink is open while the first waits for its closing goroutine.
C1_Witness ==
    /\ Len(sessions) = 2
    /\ sessions[1].state = "closing"
    /\ sessions[2].state = "open"

\* C2: a new recording session is never opened before the close of the
\* previous one has been issued: at every open, the number of sessions opened
\* so far equals the number of closes issued so far.
C2_OpenOnlyAfterCloseIssued ==
    [][Len(sessions') > Len(sessions) => Cardinality(ClosesIssued) = Len(sessions)]_vars

\* A second session has just been opened.
C2_Witness ==
    /\ lastOp = "Recording_Enter"
    /\ Len(sessions) = 2
    /\ sessions[1].closeIssuedAt # NoTime

\* C3: for every signal sequence, with no fault of the device or the sink, the
\* machine is in Recording if and only if it has observed a run of
\* present=true signals whose confirming sub-run exceeded the confirm
\* threshold and no gap since has exceeded the dropoff threshold.
C3_RecordingIffQualifiedRun ==
    ~hist.failed => (Phase = "Recording" <=> run.qualified)

\* The machine records through a gap in the motion.
C3_Witness ==
    /\ ~hist.failed
    /\ Phase = "Recording"
    /\ pc = "R_read"
    /\ run.qualified
    /\ run.last < hist.lastReadAt

\* C4, as stated: a failed write to the recording sink, whatever the signal,
\* makes the next phase Watching with the close of the session issued, no
\* further frame goes to that session, and the watch loop keeps running.
C4_WriteFailureKeepsWatching ==
    \A i \in 1..Len(sessions) :
        sessions[i].writeFailed =>
            /\ sessions[i].state # "open"
            /\ appended # i
            /\ PhaseOf(kernel) = "Watching"
            /\ ~(pc = "exit" /\ err = ErrWrite)

\* C5, as stated: once the device is open the watch loop ends on a failed
\* frame read only; a sink that fails to open, a failed write and a failed
\* close each leave the loop running: when main's loop has ended the process
\* on a kernel's error, the error is the read error.
C5_OnlyReadFailureEndsLoop ==
    (pc = "exit" /\ lastOp = "MainFatal") => err = ErrReadDevice

\* C6: when the frame source has no frame to yield, in any phase, the kernel
\* returns the read error with no next kernel, the loop can only end, and no
\* frame is read, evaluated, published or appended afterwards.
C6_ReadFailureEndsLoop ==
    /\ [](err = ErrReadDevice =>
            /\ kernel = "nil"
            /\ pc \in {"main", "exit"}
            /\ (pc = "main" => ENABLED MainFatal))
    /\ [][/\ lastOp' = "ReadFail" => err' = ErrReadDevice
          /\ err = ErrReadDevice =>
                /\ hist' = hist
                /\ run' = run
                /\ now' = now
                /\ motionDetectedAt' = motionDetectedAt
                /\ published' = published
                /\ appended' = 0
                /\ Len(sessions') = Len(sessions)]_vars

\* The loop has ended on a read failure in Recording.
C6_Witness ==
    /\ pc = "exit"
    /\ err = ErrReadDevice
    /\ sessions # <<>>
    /\ ~sessions[Len(sessions)].writeFailed

\* C7: at one cycle per 200ms, the signal present=true for 3s and then
\* present=false for 3s drives the machine into Recording in the first cycle
\* after 2s and back to Watching at 5s, 2s into the false run, with exactly
\* one recording session opened and exactly one closed.
C7_TrueFor3sThenFalseFor3s ==
    hist.on3s3s =>
        /\ Len(sessions) <= 1
        /\ hist.lastReadAt <= 2 * Second => Phase # "Recording"
        /\ (hist.lastReadAt > 2 * Second /\ hist.lastReadAt < 5 * Second)
              => Phase = "Recording"
        /\ hist.lastReadAt >= 5 * Second =>
              /\ Phase = "Watching"
              /\ Len(sessions) = 1
              /\ sessions[1].closeIssuedAt = 5 * Second
        /\ sessions # <<>> =>
              /\ sessions[1].startedAt > 2 * Second
              /\ sessions[1].startedAt <= 2 * Second + DefaultWatchCycle
              /\ sessions[1].state = "open" <=> Phase = "Recording"

\* The scenario has run to its last cycle.
C7_Witness ==
    /\ hist.on3s3s
    /\ hist.lastReadAt = EndOf3s3s - DefaultWatchCycle
    /\ pc = "W_tick"

\* C8: at one cycle per 200ms, the signal present=true for 3s, present=false
\* for 1s and present=true for 1s drives the machine into Recording in the
\* first cycle after 2s and keeps it there through the gap and to the end,
\* all in one recording session.
C8_TrueFalseTrueStaysRecording ==
    hist.on3s1s1s =>
        /\ Len(sessions) <= 1
        /\ hist.lastReadAt <= 2 * Second => Phase # "Recording"
        /\ hist.lastReadAt > 2 * Second => Phase = "Recording"
        /\ sessions # <<>> =>
              /\ sessions[1].startedAt > 2 * Second
              /\ sessions[1].startedAt <= 2 * Second + DefaultWatchCycle
              /\ sessions[1].state = "open"

\* The scenario has run to its last cycle.
C8_Witness ==
    /\ hist.on3s1s1s
    /\ hist.lastReadAt = EndOf3s1s1s - DefaultWatchCycle
    /\ pc = "R_read"
    /\ motionDetectedAt = hist.lastReadAt

\* C9: from Watching, as long as every signal is present=false the machine is
\* in Watching after every cycle, no recording session is opened, no frame is
\* appended, motionDetectedAt is unchanged and no annotation other than
\* "Watching" is published.
C9_AllFalseStaysWatching ==
    ~hist.everMotion =>
        /\ err = ErrNil => kernel = "Watching"
        /\ err \in {ErrNil, ErrReadDevice}
        /\ sessions = <<>>
        /\ appended = 0
        /\ motionDetectedAt = ZeroTime
        /\ published \in {"none", "Watching"}

\* Many cycles without motion have run.
C9_Witness ==
    /\ ~hist.everMotion
    /\ hist.lastReadAt >= 3 * Second
    /\ published = "Watching"
    /\ pc = "W_tick"

\* C10: an empty frame is skipped and read again, not taken for the end of
\* the stream: whatever the number of empty frames, the phase,
\* motionDetectedAt, the recording session and the published frame are
\* unchanged, and the cycle goes on waiting for the next non-empty frame.
C10_EmptyFrameSkipped ==
    [][lastOp' = "ReadEmpty" =>
          /\ pc \in ReadPcs
          /\ pc' = pc
          /\ kernel' = kernel
          /\ err' = ErrNil
          /\ motionDetectedAt' = motionDetectedAt
          /\ motionBegan' = motionBegan
          /\ sessions' = sessions
          /\ published' = published
          /\ appended' = 0
          /\ hist' = hist]_vars

\* Empty frames were skipped while time went by in Recording.
C10_Witness ==
    /\ lastOp = "ReadEmpty"
    /\ pc = "R_read"
    /\ now > hist.lastReadAt + DefaultWatchCycle

\* C11: for every sequence of contours, FindMotion reports motion if and only
\* if some contour has an area of at least MinimumArea, an area of exactly
\* MinimumArea included; it draws the contours of at least MinimumArea and no
\* other; and its result is this function of the contours and MinimumArea
\* whatever the time and whatever it saw before.
C11_MotionIffContourOfMinimumArea ==
    /\ frame.motionDetected <=>
            \E i \in 1..Len(frame.shapes) : frame.shapes[i] >= MinimumArea
    /\ frame.drawn = {i \in 1..Len(frame.shapes) : frame.shapes[i] >= MinimumArea}
    /\ \A i \in 1..Len(frame.shapes) :
            frame.shapes[i] < MinimumArea => i \notin frame.drawn

\* FindMotion saw a contour of exactly MinimumArea between two smaller ones,
\* after earlier frames with motion.
C11_Witness ==
    /\ lastOp = "FindMotion"
    /\ frame.shapes = <<MinimumArea - 1, MinimumArea, MinimumArea - 1>>
    /\ frame.motionDetected
    /\ frame.drawn = {2}
    /\ now > 0

\* The annotation a frame carries in the phase ph.
Annotation(ph) ==
    CASE ph = "Watching" -> "Watching"
      [] ph = "Confirming" -> "Motion Detected"
      [] ph = "Recording" -> "Recording"
      [] OTHER -> "none"

\* The pipeline thread is between two cycles: at a Read or at the tick wait.
BetweenCycles == pc \in ReadPcs \cup {"W_tick"}

\* C12, as stated: the frame of every cycle that read a non-empty frame, in
\* every phase, has gone to the debug stream by the time the next cycle starts
\* or main's loop has ended; and a frame goes to a recording sink only in
\* Recording.
C12_EveryFramePublished ==
    /\ (BetweenCycles \/ (pc = "exit" /\ lastOp = "MainFatal")) => ~pending
    /\ appended # 0 => PhaseOf(kernel) = "Recording"

\* C13, as stated: once a frame has been read, the frame the debug stream holds
\* carries the annotation of the phase the machine is in, between any two
\* cycles and also when opening the sink or writing to it has failed.
C13_AnnotationIsPhase ==
    (/\ hist.lastReadAt # NoTime
     /\ BetweenCycles \/ (pc = "exit" /\ err \in {ErrOpen, ErrWrite}))
        => published = Annotation(PhaseOf(kernel))

\* C14, as stated: when the loop has ended on a failed read, in whatever
\* phase, every recording sink is closed and Watcher.Close, which releases the
\* background subtractor and the image buffers, has run exactly once.
C14_ReleasedOnceOnReadFailure ==
    (pc = "exit" /\ err = ErrReadDevice) => (OpenSinks = {} /\ released = 1)

\* The steps that complete a wait of the pipeline thread: a Read that returned
\* a frame, empty or not, and a tick received.
WaitCompleted ==
    {"Watching_Cycle", "MotionDetected_Cycle", "Recording_Cycle", "ReadEmpty",
     "Watching_Tick"}

\* C15, as stated: once the context passed to the kernels is cancelled, the
\* wait the pipeline thread is suspended at is cancelled: no Read hands over a
\* further frame and no tick is received.
C15_CancelEndsWait == [][ctxDone => lastOp' \notin WaitCompleted]_vars

\* The steps that are a cycle: a non-empty frame was read and evaluated.
CycleOps == {"Watching_Cycle", "MotionDetected_Cycle", "Recording_Cycle"}

\* C16: MotionDetected takes the time it was entered as motionBegan; a cycle
\* of it without motion returns to Watching; a cycle with motion stays in
\* MotionDetected while now - motionBegan <= DefaultRecordingThreshold, the
\* threshold itself included, and moves to Recording only when
\* now - motionBegan > DefaultRecordingThreshold; a session is opened only by
\* Recording, once MotionDetected has moved to it.
C16_ConfirmingTransitions ==
    [][/\ lastOp' = "MotionDetected_Enter" => motionBegan' = now'
       /\ lastOp' = "MotionDetected_Cycle" =>
             /\ pc = "M_read"
             /\ sessions' = sessions
             /\ ~hist'.signal =>
                   /\ PhaseOf(kernel') = "Watching"
                   /\ pc' = "main" /\ err' = ErrNil
             /\ (hist'.signal /\ now' - motionBegan <= DefaultRecordingThreshold) =>
                   /\ kernel' = "MotionDetected"
                   /\ pc' = "M_read"
                   /\ motionBegan' = motionBegan
             /\ (hist'.signal /\ now' - motionBegan > DefaultRecordingThreshold) =>
                   /\ kernel' = "Recording"
                   /\ pc' = "main" /\ err' = ErrNil
       /\ Len(sessions') > Len(sessions) =>
             /\ lastOp' = "Recording_Enter"
             /\ kernel = "Recording"
             /\ hist.signal
             /\ ~hist.waited]_vars

\* A cycle with motion exactly DefaultRecordingThreshold after MotionDetected
\* was entered has left the machine in MotionDetected.
C16_Witness ==
    /\ lastOp = "MotionDetected_Cycle"
    /\ pc = "M_read"
    /\ hist.signal
    /\ now - motionBegan = DefaultRecordingThreshold

\* C17: in Recording, whatever the signal, a cycle with
\* now - motionDetectedAt <= DefaultRecordingDropoff, the threshold itself
\* included, hands the frame to file.Write and, the write done, has appended
\* it and stays in Recording with the session open; a cycle with
\* now - motionDetectedAt > DefaultRecordingDropoff returns to Watching with
\* the close of the session issued and the frame not written.
C17_RecordingTransitions ==
    [][lastOp' = "Recording_Cycle" =>
          LET gap == now' - motionDetectedAt'
              file == sessions'[Len(sessions')]
          IN  /\ pc = "R_read"
              /\ Len(sessions') = Len(sessions)
              /\ gap <= DefaultRecordingDropoff =>
                    \/ /\ kernel' = "Recording"
                       /\ pc' = "R_read"
                       /\ appended' = Len(sessions)
                       /\ file.state = "open"
                    \/ /\ file.writeFailed
                       /\ err' = ErrWrite
              /\ gap > DefaultRecordingDropoff =>
                    /\ PhaseOf(kernel') = "Watching"
                    /\ pc' = "main" /\ err' = ErrNil
                    /\ appended' = 0
                    /\ ~file.writeFailed
                    /\ file.state = "closing"
                    /\ file.closeIssuedAt = now']_vars

\* A cycle without motion exactly DefaultRecordingDropoff after the last
\* motion has appended its frame and left the machine in Recording.
C17_Witness ==
    /\ lastOp = "Recording_Cycle"
    /\ pc = "R_read"
    /\ ~hist.signal
    /\ now - motionDetectedAt = DefaultRecordingDropoff
    /\ appended = Len(sessions)

\* C18: motionDetectedAt changes only in a cycle whose signal is present=true,
\* which sets it to the time of the cycle, in Watching, MotionDetected and
\* Recording alike; it never decreases; and no step into Watching changes it.
C18_MotionDetectedAtOnlyOnMotion ==
    [][/\ motionDetectedAt' # motionDetectedAt =>
             /\ lastOp' \in CycleOps
             /\ hist'.signal
       /\ (lastOp' \in CycleOps /\ hist'.signal) => motionDetectedAt' = now'
       /\ motionDetectedAt' >= motionDetectedAt
       /\ (PhaseOf(kernel') = "Watching" /\ ~(lastOp' \in CycleOps /\ hist'.signal)) =>
             motionDetectedAt' = motionDetectedAt]_vars

\* Back in Watching after a recording, a cycle without motion has left the
\* time of the last motion as it was.
C18_Witness ==
    /\ lastOp = "Watching_Cycle"
    /\ pc = "W_tick"
    /\ sessions # <<>>
    /\ ~hist.failed
    /\ motionDetectedAt # ZeroTime
    /\ motionDetectedAt < now - DefaultRecordingDropoff

\* C19, as stated: before every cycle but the first of the run, the pipeline
\* thread has waited for the tick if the machine is in Watching or in
\* MotionDetected, and has not if it is in Recording.
C19_TickInWatchingAndConfirming ==
    [][(lastOp' \in CycleOps /\ hist.lastReadAt # NoTime) =>
          /\ Phase \in {"Watching", "Confirming"} => hist.waited
          /\ Phase = "Recording" => ~hist.waited]_vars

\* C19, amended: the pipeline thread waits for the tick after a cycle of
\* Watching that found no motion, and goes on to the next Read only when the
\* tick has come, unless the process ends; it waits nowhere else, so no cycle of
\* MotionDetected or of Recording and no first cycle of Watching after its
\* entry is preceded by a wait; and time passes for the thread only in a Read
\* and in the wait for the tick.
C19_TickOnlyAfterWatchingWithoutMotion ==
    [][/\ (lastOp' = "Watching_Cycle" /\ ~hist'.signal) =>
             /\ pc' = "W_tick"
             /\ kernel' = "Watching"
       /\ (pc = "W_tick" /\ pc' \notin {"W_tick", "exit"}) =>
             /\ lastOp' = "Watching_Tick"
             /\ pc' = "W_read"
             /\ hist'.waited
       /\ lastOp' = "Watching_Tick" =>
             /\ pc = "W_tick"
             /\ ~hist.signal
             /\ hist.lastReadAt # NoTime
       /\ lastOp' \in {"MotionDetected_Cycle", "Recording_Cycle"} => ~hist.waited
       /\ (lastOp' = "Watching_Cycle" /\ lastOp = "Watching_Enter") => ~hist.waited
       /\ now' # now => lastOp' \in WaitCompleted]_vars

\* Back in Watching after motion, the thread has waited one watch cycle for
\* the tick and is about to read.
C19_Witness ==
    /\ lastOp = "Watching_Tick"
    /\ pc = "W_read"
    /\ hist.waited
    /\ hist.everMotion
    /\ now = hist.lastReadAt + DefaultWatchCycle

\* C20: with no dropoff, which is the variant with a single loop, an
\* iteration on a non-empty frame that begins with recording on turns it off
\* if the frame is without motion, publishing "Watching" and going to the
\* wait, so the first such frame ends the recording; and it leaves recording
\* on, publishing "Recording" and reading on, if the frame has motion.
C20_NoDropoff ==
    [][(lastOp' = "Loop_Cycle" /\ loop.recording) =>
          IF loop'.motionDetected
          THEN /\ loop'.recording
               /\ published' = "Recording"
               /\ pc' = "L_read"
          ELSE /\ ~loop'.recording
               /\ published' = "Watching"
               /\ pc' = "L_tick"]_vars

\* Recording was on when a frame without motion came, and is off.
C20_Witness ==
    /\ lastOp = "Loop_Cycle"
    /\ loop.before
    /\ ~loop.motionDetected
    /\ ~loop.recording
    /\ published = "Watching"

\* C21: a session is created by Recording's entry alone, one for every entry
\* whose sink opens; the close of a session is issued in the step in which
\* Recording returns, by dropoff, failed write or failed read, and in no other;
\* once issued it is not issued again; a failed open creates no session and
\* issues no close; and while the machine stays in Recording the session is
\* open with no close issued.
C21_SessionLifecycle ==
    [][/\ Len(sessions') > Len(sessions) =>
             /\ lastOp' = "Recording_Enter"
             /\ Len(sessions') = Len(sessions) + 1
             /\ sessions'[Len(sessions')].startedAt = now
       /\ lastOp' = "Recording_Enter" =>
             IF err' = ErrOpen
             THEN sessions' = sessions
             ELSE /\ Len(sessions') = Len(sessions) + 1
                  /\ sessions'[Len(sessions')].state =
                        IF pc' = "R_read" THEN "open" ELSE "closing"
       /\ \A i \in 1..Len(sessions) :
             /\ sessions[i].state # "open" =>
                   /\ sessions'[i].state # "open"
                   /\ sessions'[i].closeIssuedAt = sessions[i].closeIssuedAt
             /\ (sessions[i].state = "open" /\ sessions'[i].state # "open") =>
                   /\ i = Len(sessions)
                   /\ pc = "R_read" /\ pc' = "main"
                   /\ lastOp' \in {"Recording_Cycle", "ReadFail"}
                   /\ sessions'[i].state = "closing"
                   /\ sessions'[i].closeIssuedAt = now'
       /\ (pc = "R_read" /\ pc' = "main") =>
             /\ sessions[Len(sessions)].state = "open"
             /\ sessions'[Len(sessions)].state = "closing"
       /\ pc' = "R_read" =>
             /\ sessions'[Len(sessions')].state = "open"
             /\ sessions'[Len(sessions')].closeIssuedAt = NoTime]_vars

\* The second session has had its close issued by a failed read, after the
\* first had its close issued by the dropoff.
C21_Witness ==
    /\ lastOp = "ReadFail"
    /\ Len(sessions) = 2
    /\ sessions[2].state = "closing"
    /\ sessions[2].closeIssuedAt = now
    /\ sessions[1].closeIssuedAt < sessions[2].startedAt

\* C22: whenever a kernel returns Recording, the kernel is MotionDetected, the
\* frame it has just read shows motion, every frame read since the cycle of
\* Watching that found the motion has shown motion, and more than
\* DefaultRecordingThreshold has passed since that cycle; a cycle of
\* MotionDetected without motion returns to Watching and drops motionBegan,
\* and the next entry of MotionDetected starts counting from its own time.
C22_RecordingOnlyAfterUnbrokenMotion ==
    [][/\ (kernel' = "Recording" /\ kernel # "Recording") =>
             /\ lastOp' = "MotionDetected_Cycle"
             /\ hist'.signal
             /\ run.start # NoTime
             /\ run.start = motionBegan
             /\ run'.start = run.start
             /\ now' - run.start > DefaultRecordingThreshold
       /\ pc = "M_read" =>
             /\ run.start = motionBegan
             /\ hist.signal
       /\ (lastOp' = "MotionDetected_Cycle" /\ ~hist'.signal) =>
             /\ PhaseOf(kernel') = "Watching"
             /\ motionBegan' = NoTime
             /\ run'.start = NoTime
       /\ lastOp' = "MotionDetected_Enter" =>
             /\ motionBegan' = hist.lastReadAt
             /\ motionBegan' = run.start]_vars

\* MotionDetected has returned Recording on its second run, the first having
\* been broken off by a frame without motion.
C22_Witness ==
    /\ lastOp = "MotionDetected_Cycle"
    /\ kernel = "Recording"
    /\ pc = "main"
    /\ sessions = <<>>
    /\ run.start > 0
    /\ hist.everMotion
    /\ now - run.start > DefaultRecordingThreshold

\* C25: the start times of any two sessions of the watcher differ by more than
\* DefaultRecordingThreshold, and indeed by more than the threshold and the
\* dropoff together, since the earlier session must drop off before motion is
\* confirmed anew; so no two sessions get the same filename.
C25_SessionsStartApart ==
    \A i \in 1..Len(sessions) : \A j \in 1..Len(sessions) :
        i < j =>
            /\ sessions[j].startedAt - sessions[i].startedAt > DefaultRecordingThreshold
            /\ sessions[j].startedAt - sessions[i].startedAt
                    > DefaultRecordingThreshold + DefaultRecordingDropoff
            /\ Filename(sessions[j].startedAt) # Filename(sessions[i].startedAt)

\* A second session has started as soon after the first as the reads allow.
C25_Witness ==
    /\ Len(sessions) = 2
    /\ sessions[2].startedAt - sessions[1].startedAt
            = DefaultRecordingThreshold + DefaultRecordingDropoff + 2 * DefaultWatchCycle
    /\ pc = "R_read"

\* C24: the frames a session gets are the frame whose cycle of MotionDetected
\* returned Recording, written once by Recording's entry before any further
\* read, and then every frame read in Recording up to the one that leaves it,
\* each once and in the order read; the frame that triggers the dropoff is
\* read and not written; and no frame is written outside Recording.
C24_FramesAppended ==
    [][LET w == tape'.written IN
       /\ \A i \in 1..Len(w) : w[i] = w[1] + i - 1
       /\ (kernel' = "Recording" /\ kernel # "Recording") =>
             tape'.read = tape.read + 1
       /\ (kernel = "Recording" /\ pc = "main" /\ lastOp' # "Recording_Enter") =>
             tape' = tape
       /\ (lastOp' = "Recording_Enter" /\ pc' = "R_read") =>
             /\ w = <<tape.read>>
             /\ tape'.read = tape.read
       /\ pc' = "R_read" =>
             /\ w # <<>>
             /\ w[Len(w)] = tape'.read
       /\ (lastOp' = "Recording_Cycle" /\ pc' = "R_read") =>
             w = Append(tape.written, tape.read + 1)
       /\ (lastOp' = "Recording_Cycle" /\ pc' = "main" /\ err' = ErrNil) =>
             /\ tape'.read = tape.read + 1
             /\ w = tape.written
       /\ lastOp' \notin {"Recording_Enter", "Recording_Cycle"} =>
             w = tape.written]_vars

\* A session got the frame that confirmed the motion and the next one, and
\* the frame after, which triggered the dropoff, was read and not written.
C24_Witness ==
    /\ lastOp = "Recording_Cycle"
    /\ kernel = "BackToWatching"
    /\ err = ErrNil
    /\ tape.written = <<2, 3>>
    /\ tape.read = 4

\* C23: if the machine is in Recording and from then on every frame is
\* non-empty and without motion, time passes with every read and every write
\* succeeds, then the machine eventually is back in Watching, with the close
\* of the session issued and "Watching" published. The claim is about the
\* pipeline and its scene: a run in which one of main's two helper goroutines
\* ends the process by log.Fatal before that is not its case.
C23_QuietSceneEndsRecording ==
    (quiet /\ pc = "R_read") ~>
        \/ /\ sessions # <<>>
           /\ kernel = "Watching"
           /\ pc \in {"W_read", "W_tick"}
           /\ published = "Watching"
           /\ sessions[Len(sessions)].closeIssuedAt # NoTime
           /\ sessions[Len(sessions)].closeIssuedAt
                 > motionDetectedAt + DefaultRecordingDropoff
        \/ /\ pc = "exit"
           /\ lastOp \in {"OpenerFatal", "ServerFatal"}

\* With the scene at rest the recording has dropped off and Watching has read
\* its next frame.
C23_Witness ==
    /\ quiet
    /\ sessions # <<>>
    /\ kernel = "Watching"
    /\ pc = "W_tick"
    /\ lastOp = "Watching_Cycle"
    /\ sessions[Len(sessions)].state = "closed"
    /\ hist.lastReadAt > sessions[Len(sessions)].closeIssuedAt

====
